---- MODULE Spec2Model ----
(***************************************************************************)
(* A model of HyperionSort.py: the AdaptiveCache, the BlockManager, the    *)
(* heap-based multiway merge and the EnhancedHyperionSort.sort engine.     *)
(*                                                                         *)
(* Array elements are float64 values; the model draws them from the        *)
(* naturals 0..MaxVal (integral floats), so comparisons and sorting are    *)
(* exact.  Each component has its own specification (SpecCache, SpecFn,    *)
(* Spec, ...); the variables of the other components stay at their idle    *)
(* value.                                                                  *)
(***************************************************************************)
EXTENDS Integers, Sequences, FiniteSets, TLC

VARIABLES
    ac,       \* an AdaptiveCache: cache (key -> value), size (the capacity), hits, misses,
              \* history (_access_history, oldest first), maxlen (of that deque), min_size,
              \* memo (the lru_cache wrapped around get: key -> remembered result)
    lastOp,   \* the last operation a client made on ac, and what it saw
    fnIn,     \* pure functions: the input the function is applied to
    fnOut,    \* pure functions: what it returned
    eng,      \* EnhancedHyperionSort: the engine, its sort call in progress, the caller's view
    ext       \* _external_sort, step by step: the coroutine, its read tasks, the executor
              \* threads and temp_data.bin; in SpecConc two runs and the one file

cacheVars == <<ac, lastOp>>
fnVars == <<fnIn, fnOut>>
engVars == <<eng>>
extVars == <<ext>>
vars == <<ac, lastOp, fnIn, fnOut, eng, ext>>

(***************************************************************************)
(* Bounds of the exploration.                                              *)
(***************************************************************************)
MaxLen == 3          \* small input arrays have 0..MaxLen elements
MaxVal == 2          \* element values are 0..MaxVal
MaxKeys == 3         \* cache keys are 1..MaxKeys
MaxCacheSize == 2    \* AdaptiveCache(initial_size) with initial_size in 1..MaxCacheSize
MaxCacheVal == 2     \* cached values are 1..MaxCacheVal
MaxParts == 3        \* the multiway merge is given 0..MaxParts partitions
MaxPartLen == 2      \* each of 0..MaxPartLen elements
MaxPartVal == 1      \* with values 0..MaxPartVal
MaxBlockSize == 3    \* BlockManager(block_size) with block_size in 1..MaxBlockSize
MaxArrayLen == 5     \* split_into_blocks is given arrays of 0..MaxArrayLen elements
MaxBlocks == 2       \* merge_blocks is given 0..MaxBlocks blocks
MaxBlockLen == 1     \* each of 0..MaxBlockLen elements
MaxStreamLen == 5    \* short streams have 0..MaxStreamLen items
MaxStreamVal == 1    \* with values 0..MaxStreamVal
MaxSecondLen == 1    \* a second stream on the same processor has 0..MaxSecondLen items
MaxRadixLen == 2     \* integer arrays for the radix sort have 0..MaxRadixLen elements
MaxRadixVal == 12    \* with values 0..MaxRadixVal
NumRuns == 2         \* external sorts running at the same time
MaxConcLen == 2      \* their arrays have 0..MaxConcLen elements
MaxConcVal == 1      \* with values 0..MaxConcVal
SkewLen == 7         \* length of the array with one outlier
KurtLen == 17        \* length of the array with an outlier on each side
EnvCpuCount == 4     \* psutil.cpu_count() of the machine
EnvAvailableMemory == 1000000   \* psutil.virtual_memory().available when memory is not short

\* Python's None, as returned by AdaptiveCache.get on a miss.
None == -1

Idle == "idle"

(***************************************************************************)
(* Sequence helpers.                                                       *)
(***************************************************************************)
Range(s) == {s[i] : i \in 1..Len(s)}

Min2(a, b) == IF a <= b THEN a ELSE b
Max2(a, b) == IF a >= b THEN a ELSE b

\* The number of occurrences of v in s.
Count(s, v) == Cardinality({i \in 1..Len(s) : s[i] = v})

\* Same multiset of elements.
IsPermutation(s, t) ==
    /\ Len(s) = Len(t)
    /\ \A v \in Range(s) \cup Range(t) : Count(s, v) = Count(t, v)

\* result[:-1] <= result[1:], all of them.
IsSorted(s) == \A i \in 1..(Len(s) - 1) : s[i] <= s[i + 1]

\* All sequences over S of length 0..n.
SeqsUpTo(S, n) == UNION {[1..k -> S] : k \in 0..n}

(***************************************************************************)
(* AdaptiveCache.                                                          *)
(***************************************************************************)
Keys == 1..MaxKeys
CacheVals == 1..MaxCacheVal

\* functools.lru_cache(maxsize=256) on AdaptiveCache.get.
LruMaxsize == 256

\* self._resize_threshold = 0.8, as the fraction ResizeNum / ResizeDen.
ResizeNum == 8
ResizeDen == 10

\* deque.append on a deque(maxlen=m): a full deque drops its oldest element.
DequeAppend(d, m, x) ==
    IF m = 0 THEN <<>>
    ELSE IF Len(d) >= m THEN Append(Tail(d), x)
    ELSE Append(d, x)

\* dict.pop(k, None) and dict[k] = v.
DictPop(c, k) == [x \in (DOMAIN c) \ {k} |-> c[x]]
DictSet(c, k, v) == [x \in (DOMAIN c) \cup {k} |-> IF x = k THEN v ELSE c[x]]

\* AdaptiveCache._should_resize: hit_rate = hits / (hits + misses + 1);
\* hit_rate < 0.8 or len(history) < min_size; never with an empty history.
ShouldResize(h, m, hist, mn) ==
    IF Len(hist) = 0 THEN FALSE
    ELSE (h * ResizeDen < ResizeNum * (h + m + 1)) \/ (Len(hist) < mn)

\* int(self.size * 1.5)
GrowSize(s) == (3 * s) \div 2

\* The lru_cache after get(k) ran its body and returned r.  The cache keeps
\* LruMaxsize results and drops the least recently used one beyond that; the
\* model has MaxKeys <= LruMaxsize keys, so no result is ever dropped.
MemoStore(memo, k, r) ==
    IF Cardinality(DOMAIN memo) < LruMaxsize THEN DictSet(memo, k, r) ELSE memo

\* AdaptiveCache.__init__(initial_size)
NewCache(initial_size) ==
    [cache |-> << >>, size |-> initial_size, hits |-> 0, misses |-> 0,
     history |-> << >>, maxlen |-> initial_size, min_size |-> initial_size \div 2,
     memo |-> << >>]

\* AdaptiveCache.resize, called by get after misses was incremented: the
\* capacity grows and _access_history is replaced by a new, empty deque.
Resize(c) ==
    IF ShouldResize(c.hits, c.misses, c.history, c.min_size)
    THEN LET newSize == Max2(c.min_size, GrowSize(c.size))
         IN [c EXCEPT !.size = newSize, !.history = << >>, !.maxlen = newSize]
    ELSE c

\* The body of AdaptiveCache.get(key): [c |-> the cache after, ret |-> the value or None].
GetBody(c, k) ==
    IF k \in DOMAIN c.cache
    THEN [c |-> [c EXCEPT !.hits = c.hits + 1,
                          !.history = DequeAppend(c.history, c.maxlen, k)],
          ret |-> c.cache[k]]
    ELSE [c |-> Resize([c EXCEPT !.misses = c.misses + 1]), ret |-> None]

\* lru_cache after the body of get(k) answered b: the result is remembered.
Remember(memo, k, b) == [c |-> [b.c EXCEPT !.memo = MemoStore(memo, k, b.ret)], ret |-> b.ret]

\* AdaptiveCache.get(key), behind lru_cache: a remembered (self, key) returns
\* the remembered result without running the body.
CacheGetOp(c, k) ==
    IF k \in DOMAIN c.memo
    THEN [c |-> c, ret |-> c.memo[k]]
    ELSE Remember(c.memo, k, GetBody(c, k))

\* Whether put finds the cache at capacity: len(self.cache) >= self.size.
AtCapacity(c) == Cardinality(DOMAIN c.cache) >= c.size

\* AdaptiveCache.put(key, value): [c |-> the cache after, raised |-> IndexError].
\* popleft on an empty deque raises before anything is stored.
CachePutOp(c, k, v) ==
    IF AtCapacity(c) /\ Len(c.history) = 0
    THEN [c |-> c, raised |-> TRUE]
    ELSE LET full == AtCapacity(c)
             hist1 == IF full THEN Tail(c.history) ELSE c.history
             cache1 == IF full THEN DictPop(c.cache, Head(c.history)) ELSE c.cache
         IN [c |-> [c EXCEPT !.cache = DictSet(cache1, k, v),
                             !.history = DequeAppend(hist1, c.maxlen, k)],
             raised |-> FALSE]

\* A client calls get(k); lastOp records what the caller saw.
CacheGet ==
    \E k \in Keys :
        LET r == CacheGetOp(ac, k) IN
        /\ ac' = r.c
        /\ lastOp' = [op |-> "get", key |-> k, val |-> None, ret |-> r.ret, raised |-> FALSE,
                      full |-> FALSE, oldest |-> None, before |-> DOMAIN ac.cache]
        /\ UNCHANGED <<fnVars, engVars, extVars>>

\* A client calls put(k, v).
CachePut ==
    \E k \in Keys, v \in CacheVals :
        LET r == CachePutOp(ac, k, v) IN
        /\ ac' = r.c
        /\ lastOp' = [op |-> "put", key |-> k, val |-> v, ret |-> None, raised |-> r.raised,
                      full |-> AtCapacity(ac),
                      oldest |-> IF Len(ac.history) > 0 THEN Head(ac.history) ELSE None,
                      before |-> DOMAIN ac.cache]
        /\ UNCHANGED <<fnVars, engVars, extVars>>

InitCache ==
    /\ \E n \in 1..MaxCacheSize : ac = NewCache(n)
    /\ lastOp = [op |-> "new", key |-> None, val |-> None, ret |-> None, raised |-> FALSE,
                 full |-> FALSE, oldest |-> None, before |-> {}]
    /\ fnIn = Idle /\ fnOut = Idle /\ eng = Idle /\ ext = Idle
NextCache == CacheGet \/ CachePut
SpecCache == InitCache /\ [][NextCache]_vars

(***************************************************************************)
(* BlockManager.                                                           *)
(***************************************************************************)
RECURSIVE Concat(_)
\* np.concatenate of a list of arrays.
Concat(ss) == IF Len(ss) = 0 THEN << >> ELSE Head(ss) \o Concat(Tail(ss))

RECURSIVE SumLen(_)
SumLen(ss) == IF Len(ss) = 0 THEN 0 ELSE Len(Head(ss)) + SumLen(Tail(ss))

\* np.array_split(arr, k): k contiguous sections, the first len % k of them
\* one element longer than the others.
ArraySplit(arr, k) ==
    LET n == Len(arr)
        q == n \div k
        r == n % k
        start(i) == (i - 1) * q + Min2(i - 1, r)     \* elements before section i
        len(i) == q + (IF i <= r THEN 1 ELSE 0)
    IN [i \in 1..k |-> SubSeq(arr, start(i) + 1, start(i) + len(i))]

\* A slip of the block count to the ceiling of len / block_size.
SplitIntoBlocksCeil(arr, block_size) ==
    ArraySplit(arr, Max2(1, (Len(arr) + block_size - 1) \div block_size))

\* BlockManager.split_into_blocks
SplitIntoBlocks(arr, block_size) == ArraySplit(arr, Max2(1, Len(arr) \div block_size))

\* The write position of merge_blocks before block i: pos += len(block).
BlockPos(blocks, i) == SumLen(SubSeq(blocks, 1, i - 1))

\* BlockManager.merge_blocks: an empty list gives the empty array; otherwise
\* a zero array of the total length, each block written at its position.
MergeBlocks(blocks) ==
    IF Len(blocks) = 0 THEN << >>
    ELSE [p \in 1..SumLen(blocks) |->
            LET i == CHOOSE j \in 1..Len(blocks) :
                        BlockPos(blocks, j) < p /\ p <= BlockPos(blocks, j) + Len(blocks[j])
            IN blocks[i][p - BlockPos(blocks, i)]]

(***************************************************************************)
(* The multiway merge, EnhancedHyperionSort._merge_sorted_arrays.          *)
(* The heap holds tuples (value, array index, element index); heapq pops   *)
(* the smallest tuple in lexicographic order.  Indices are 1-based here.   *)
(***************************************************************************)
TupleLess(a, b) ==
    \/ a[1] < b[1]
    \/ a[1] = b[1] /\ a[2] < b[2]
    \/ a[1] = b[1] /\ a[2] = b[2] /\ a[3] < b[3]

\* heapq.heappop: the smallest tuple of the heap.
HeapMin(heap) == CHOOSE t \in heap : \A u \in heap : u = t \/ TupleLess(t, u)

\* The heap after the first loop: the head of every non-empty array.
MergeHeapInit(arrays) ==
    {<<arrays[i][1], i, 1>> : i \in {j \in 1..Len(arrays) : Len(arrays[j]) > 0}}

\* A slip of the successor test by one, elem_idx + 2 < len(...): the last
\* element of every partition would never be pushed.
MergeHasNextOffByOne(arrays, t) == t[3] + 1 < Len(arrays[t[2]])

\* Whether the popped tuple's successor is pushed: elem_idx + 1 < len(arrays[arr_idx]).
MergeHasNext(arrays, t) == t[3] < Len(arrays[t[2]])

\* One iteration of "while heap": pop, append, push the successor.
MergeStep(arrays, st) ==
    IF st.heap = {} THEN st
    ELSE LET t == HeapMin(st.heap)
             rest == st.heap \ {t}
             pushed == IF MergeHasNext(arrays, t)
                       THEN {<<arrays[t[2]][t[3] + 1], t[2], t[3] + 1>>}
                       ELSE {}
         IN [heap |-> {u \in rest \cup pushed : TRUE},    \* as an explicit set
             merged |-> Append(st.merged, t[1])]

RECURSIVE MergeLoop(_, _, _)
\* k iterations of the loop, split in halves; the test on the first half
\* makes TLC evaluate it before the second, which keeps the nesting
\* logarithmic.
MergeLoop(arrays, st, k) ==
    IF k = 0 THEN st
    ELSE IF k = 1 THEN MergeStep(arrays, st)
    ELSE LET half == MergeLoop(arrays, st, k \div 2)
         IN IF Len(half.merged) >= 0 THEN MergeLoop(arrays, half, k - (k \div 2)) ELSE half

\* _merge_sorted_arrays: the loop runs while the heap is non-empty; every
\* iteration pops one tuple and every element is pushed at most once, so the
\* heap is empty after at most SumLen(arrays) iterations.
MergeSortedArrays(arrays) ==
    MergeLoop(arrays, [heap |-> MergeHeapInit(arrays), merged |-> << >>], SumLen(arrays)).merged

(***************************************************************************)
(* The specification of the pure functions: Init draws the input, one      *)
(* action per function applies it.                                         *)
(***************************************************************************)
Vals == 0..MaxVal
SmallArrays == SeqsUpTo(Vals, MaxLen)
SortedParts == {p \in SeqsUpTo(0..MaxPartVal, MaxPartLen) : IsSorted(p)}
PartLists == SeqsUpTo(SortedParts, MaxParts)
SplitArrays == SeqsUpTo(Vals, MaxArrayLen)
BlockLists == SeqsUpTo(SeqsUpTo(Vals, MaxBlockLen), MaxBlocks)

FnNew == [stage |-> "new", blocks |-> << >>, ret |-> << >>]

FnInputs ==
    {[op |-> "merge", arrays |-> ps, arr |-> << >>, block_size |-> 1] : ps \in PartLists}
    \cup {[op |-> "split", arrays |-> << >>, arr |-> a, block_size |-> b] :
            a \in SplitArrays, b \in 1..MaxBlockSize}
    \cup {[op |-> "merge_blocks", arrays |-> bl, arr |-> << >>, block_size |-> 1] :
            bl \in BlockLists}

MergeSortedArraysCall ==
    /\ fnIn.op = "merge" /\ fnOut.stage = "new"
    /\ fnOut' = [stage |-> "done", blocks |-> << >>, ret |-> MergeSortedArrays(fnIn.arrays)]
    /\ UNCHANGED <<fnIn, cacheVars, engVars, extVars>>

SplitIntoBlocksCall ==
    /\ fnIn.op = "split" /\ fnOut.stage = "new"
    /\ fnOut' = [stage |-> "split", blocks |-> SplitIntoBlocks(fnIn.arr, fnIn.block_size),
                 ret |-> << >>]
    /\ UNCHANGED <<fnIn, cacheVars, engVars, extVars>>

\* merge_blocks, of the blocks just split or of a list given as input.
MergeBlocksCall ==
    /\ \/ fnIn.op = "split" /\ fnOut.stage = "split"
          /\ fnOut' = [fnOut EXCEPT !.stage = "done", !.ret = MergeBlocks(fnOut.blocks)]
       \/ fnIn.op = "merge_blocks" /\ fnOut.stage = "new"
          /\ fnOut' = [stage |-> "done", blocks |-> fnIn.arrays, ret |-> MergeBlocks(fnIn.arrays)]
    /\ UNCHANGED <<fnIn, cacheVars, engVars, extVars>>

CacheIdle == ac = Idle /\ lastOp = Idle

InitFn == fnIn \in FnInputs /\ fnOut = FnNew /\ CacheIdle /\ eng = Idle /\ ext = Idle
NextFn == MergeSortedArraysCall \/ SplitIntoBlocksCall \/ MergeBlocksCall
SpecFn == InitFn /\ [][NextFn]_vars

(***************************************************************************)
(* The sorting paths of EnhancedHyperionSort.  A path that may raise       *)
(* returns [raised |-> ..., arr |-> ...]; arr is meaningless when raised.  *)
(***************************************************************************)
Ok(a) == [raised |-> FALSE, arr |-> a]
Raise == [raised |-> TRUE, arr |-> << >>]

RECURSIVE SortFrom(_, _)
\* The elements of a with a value in vs, in ascending order: the copies of
\* the least value, then the rest.
SortFrom(a, vs) ==
    IF vs = {} THEN << >>
    ELSE LET v == CHOOSE x \in vs : \A w \in vs : x <= w
         IN SelectSeq(a, LAMBDA x : x = v) \o SortFrom(a, vs \ {v})

\* np.sort(arr), np.sort(arr, kind='stable') and sorted(...): the ascending
\* arrangement of the elements (the library's contract; stability cannot be
\* seen on plain numbers).
NpSort(a) == SortFrom(a, Range(a))

ArrMin(a) == CHOOSE v \in Range(a) : \A w \in Range(a) : v <= w
ArrMax(a) == CHOOSE v \in Range(a) : \A w \in Range(a) : v >= w

\* Whole arrays below this length are sorted directly (_hybrid_sort,
\* _advanced_partition, _advanced_block_sort, _optimize_bucket_count).
SmallArrayLimit == 1000
\* _advanced_partition: at most this many percentile pivots.
MaxPivots == 10

\* np.percentile(arr, q) for the j-th of m quantiles np.linspace(0, 100, m),
\* j = 0..m-1, by linear interpolation between the two nearest ranks, times
\* (m - 1) to stay in the integers: the virtual index is j*(n-1)/(m-1).
PivotScaled(sorted, j, m) ==
    LET n == Len(sorted)
        lo == (j * (n - 1)) \div (m - 1)
        rem == (j * (n - 1)) % (m - 1)
        hi == Min2(lo + 1, n - 1)
    IN sorted[lo + 1] * (m - 1) + rem * (sorted[hi + 1] - sorted[lo + 1])

\* Whether partition i of _advanced_partition takes x:
\* (arr >= pivots[i - 1]) & (arr < pivots[i]).
InPartition(x, lowScaled, highScaled, m) ==
    x * (m - 1) >= lowScaled /\ x * (m - 1) < highScaled

\* EnhancedHyperionSort._advanced_partition: the non-empty partitions.
AdvancedPartition(a) ==
    IF Len(a) < SmallArrayLimit THEN <<a>>
    ELSE LET m == Min2(Len(a) \div SmallArrayLimit + 1, MaxPivots)
             sorted == NpSort(a)
             piv == [j \in 0..(m - 1) |-> PivotScaled(sorted, j, m)]
             part == [i \in 1..(m - 1) |->
                        SelectSeq(a, LAMBDA x : InPartition(x, piv[i - 1], piv[i], m))]
         IN SelectSeq(part, LAMBDA q : Len(q) > 0)

\* EnhancedHyperionSort._hybrid_sort; np.concatenate of an empty list raises
\* ValueError.
HybridSort(a) ==
    IF Len(a) < SmallArrayLimit THEN Ok(NpSort(a))
    ELSE LET partitions == AdvancedPartition(a)
             sorted_partitions == [i \in 1..Len(partitions) |-> NpSort(partitions[i])]
         IN IF Len(sorted_partitions) = 0 THEN Raise ELSE Ok(Concat(sorted_partitions))

(***************************************************************************)
(* Sample statistics.  The selector, _adaptive_sort and the bucket-count   *)
(* heuristic draw sample = arr[np.random.choice(n, min(1000, n),           *)
(* replace=False)]: for n <= SampleMax, as everywhere in this model, the   *)
(* sample is a random permutation of the whole array.                      *)
(***************************************************************************)
SampleMax == 1000

RECURSIVE PowerSum(_, _, _)
\* The sum of Count(a, v) * v^k over the values v of vs.
PowerSum(a, vs, k) ==
    IF vs = {} THEN 0
    ELSE LET v == CHOOSE x \in vs : TRUE
         IN Count(a, v) * (IF k = 1 THEN v ELSE v * v) + PowerSum(a, vs \ {v}, k)

\* n^2 * variance of the array: n * sum(x^2) - (sum x)^2, so that
\* np.std(a) = sqrt(VarScaled(a)) / n.
VarScaled(a) ==
    LET s1 == PowerSum(a, Range(a), 1) IN Len(a) * PowerSum(a, Range(a), 2) - s1 * s1

\* np.ptp(a) of a non-empty array.
Ptp(a) == ArrMax(a) - ArrMin(a)

\* std_dev < range_size / 100, i.e. 10^4 * VarScaled < range^2 * n^2.
LowVarianceDen == 10000
LowVariance(a) ==
    LET x == Ptp(a) * Ptp(a) * Len(a) * Len(a)
    IN x > 0 /\ VarScaled(a) <= (x - 1) \div LowVarianceDen

\* The largest multiplicity of a value in the array (0 for the empty array).
MaxMultiplicity(a) ==
    IF Len(a) = 0 THEN 0
    ELSE LET v == CHOOSE x \in Range(a) : \A w \in Range(a) : Count(a, x) >= Count(a, w)
         IN Count(a, v)

\* The values is_nearly_sorted can take over the orders the sample may come
\* in: np.sum(np.diff(sample) < 0) < len(sample) * 0.1.  The ascending order
\* has no descent; the most descents an order of the multiset can have is
\* n - (largest multiplicity), each strictly falling run holding a value at
\* most once.
NearlySortedOutcomes(a) ==
    {b \in BOOLEAN : \/ b /\ Len(a) > 0
                     \/ ~b /\ 10 * (Len(a) - MaxMultiplicity(a)) >= Len(a)}

RECURSIVE SqrtBetween(_, _, _)
\* The largest r in lo..hi with r * r <= n, by bisection.
SqrtBetween(n, lo, hi) ==
    IF lo = hi THEN lo
    ELSE LET mid == (lo + hi + 1) \div 2
         IN IF mid * mid <= n THEN SqrtBetween(n, mid, hi) ELSE SqrtBetween(n, lo, mid - 1)

\* floor(sqrt(n)) = int(math.sqrt(n)); 46340 is the largest root whose square
\* a 32-bit integer holds.
ISqrt(n) == SqrtBetween(n, 0, Min2(n, 46340))

(***************************************************************************)
(* _optimize_bucket_count and the engine's AdaptiveCache.                  *)
(***************************************************************************)
\* n // 10 for the arrays below SmallArrayLimit.
SmallBucketDiv == 10

\* round(100 * arr.std()), the part of the cache key printed by {:.2f}:
\* 100 * std = 10 * sqrt(100 * VarScaled) / n.
StdCenti(a) == (20 * ISqrt(100 * VarScaled(a)) + Len(a)) \div (2 * Len(a))

\* cache_key = f"bucket_count_{n}_{arr.std():.2f}"
BucketCacheKey(a) == <<Len(a), StdCenti(a)>>

\* int(min(sqrt(n) * (std_dev / range_size) * 2, n / log2(n))) for a sample
\* of the whole array: the largest k with k^2 * range^2 * n <= 4 * VarScaled.
\* std_dev / range_size is at most 1/2, so the first argument is at most
\* sqrt(n), which is below n / log2(n) from n = 16 on: min takes the first.
SpreadBucketCount(a) ==
    LET r2n == Ptp(a) * Ptp(a) * Len(a)
    IN CHOOSE k \in 0..ISqrt(Len(a)) :
          k * k * r2n <= 4 * VarScaled(a) /\ (k + 1) * (k + 1) * r2n > 4 * VarScaled(a)

\* self.cache.put(cache_key, bucket_count); return bucket_count
StoreBucketCount(c, cache_key, bucket_count) ==
    [raised |-> CachePutOp(c, cache_key, bucket_count).raised, count |-> bucket_count,
     c |-> CachePutOp(c, cache_key, bucket_count).c]

\* _optimize_bucket_count after "cached_value := self.cache.get(cache_key)"
\* answered g.  A remembered count of 0 is falsy and is computed again.  With
\* range_size = 0 the quotient std_dev / range_size is nan, min(nan, ...) is
\* nan and int(nan) raises ValueError.
ComputeBucketCount(a, cache_key, g) ==
    IF g.ret # None /\ g.ret # 0
    THEN [raised |-> FALSE, count |-> g.ret, c |-> g.c]
    ELSE IF LowVariance(a) THEN StoreBucketCount(g.c, cache_key, ISqrt(Len(a)))
    ELSE IF Ptp(a) = 0 THEN [raised |-> TRUE, count |-> 0, c |-> g.c]
    ELSE StoreBucketCount(g.c, cache_key, SpreadBucketCount(a))

\* EnhancedHyperionSort._optimize_bucket_count on the engine's cache c:
\* [raised, count, c].
OptimizeBucketCount(a, c) ==
    IF Len(a) < SmallArrayLimit
    THEN [raised |-> FALSE, count |-> Max2(1, Len(a) \div SmallBucketDiv), c |-> c]
    ELSE ComputeBucketCount(a, BucketCacheKey(a), CacheGetOp(c, BucketCacheKey(a)))

\* The bucket of x in _bucket_sort, 0-based: int((x - min_val) / width) with
\* width = (max_val - min_val) / n_buckets, the last bucket taking max_val.
BucketIdx(x, lo, hi, n_buckets) ==
    LET idx == ((x - lo) * n_buckets) \div (hi - lo)
    IN IF idx = n_buckets THEN idx - 1 ELSE idx

\* The buckets of _bucket_sort, each sorted (np.sort of a short bucket).
FillBuckets(a, min_val, max_val, n_buckets) ==
    [i \in 1..n_buckets |->
        NpSort(SelectSeq(a, LAMBDA x : BucketIdx(x, min_val, max_val, n_buckets) = i - 1))]

\* _bucket_sort after "n_buckets = self._optimize_bucket_count(arr)" answered
\* b.  With n_buckets = 0 the width is inf, every index is 0 - 1 and
\* buckets[-1] of an empty list raises IndexError.
SortWithBuckets(a, b) ==
    IF b.raised THEN [raised |-> TRUE, arr |-> << >>, c |-> b.c]
    ELSE IF ArrMin(a) = ArrMax(a) THEN [raised |-> FALSE, arr |-> a, c |-> b.c]
    ELSE IF b.count = 0 THEN [raised |-> TRUE, arr |-> << >>, c |-> b.c]
    ELSE [raised |-> FALSE,
          arr |-> Concat(SelectSeq(FillBuckets(a, ArrMin(a), ArrMax(a), b.count),
                                   LAMBDA q : Len(q) > 0)),
          c |-> b.c]

\* EnhancedHyperionSort._bucket_sort: [raised, arr, c].
BucketSort(a, c) ==
    IF Len(a) = 0 THEN [raised |-> FALSE, arr |-> a, c |-> c]
    ELSE SortWithBuckets(a, OptimizeBucketCount(a, c))

(***************************************************************************)
(* Chunked paths.                                                          *)
(***************************************************************************)
\* arr.itemsize: 8 for float64 (every list is converted to it), 4 for an
\* int32 ndarray.
Float64Size == 8
Int32Size == 4
ItemSize(dtype) == IF dtype = "int32" THEN Int32Size ELSE Float64Size
\* psutil.cpu_count() * 2 ** 20
L3PerCpu == 1048576
\* return min(arr_size, 10000)
CacheChunkCap == 10000
\* return max(1000, arr_size // optimal_chunks)
MinChunk == 1000

\* EnhancedHyperionSort._adaptive_chunk_size with adaptive_threshold = 0.8;
\* mem is psutil.virtual_memory().available.
AdaptiveChunkSize(arr_size, itemsize, mem) ==
    IF arr_size * itemsize < EnvCpuCount * L3PerCpu
    THEN Min2(arr_size, CacheChunkCap)
    ELSE Max2(MinChunk,
              arr_size \div Max2(EnvCpuCount, (arr_size * itemsize * ResizeDen) \div (mem * ResizeNum)))

\* EnhancedHyperionSort._parallel_sort, the array it returns.  A chunk size
\* of 0 (the empty array) raises ZeroDivisionError in len(arr) // chunk_size.
ParallelSort(a, itemsize, mem) ==
    LET chunk_size == AdaptiveChunkSize(Len(a), itemsize, mem) IN
    IF chunk_size = 0 THEN Raise
    ELSE LET chunks == ArraySplit(a, Max2(1, Len(a) \div chunk_size))
             sorted_chunks == [i \in 1..Len(chunks) |-> NpSort(chunks[i])]
         IN Ok(MergeSortedArrays(sorted_chunks))

\* EnhancedHyperionSort._memory_efficient_sort.  range(0, len(arr), 0) raises
\* ValueError for the empty array; otherwise the first iteration calls
\* np.sort(chunk, out=chunk), and np.sort takes no "out": TypeError.
MemoryEfficientSort(a, itemsize, mem) ==
    LET chunk_size == AdaptiveChunkSize(Len(a), itemsize, mem) IN
    IF chunk_size = 0 THEN Raise
    ELSE IF Len(a) > 0 THEN Raise
    ELSE Ok([i \in 1..Len(a) |-> 0])

(***************************************************************************)
(* _radix_sort.                                                            *)
(***************************************************************************)
RadixBase == 10

\* One pass: ten buckets by the digit (x // exp) % 10, concatenated.
RadixPass(a, exp) ==
    Concat([d \in 1..RadixBase |->
                SelectSeq(a, LAMBDA x : (x \div exp) % RadixBase = d - 1)])

\* np.concatenate(buckets) of ten lists: an empty list is a float64 array,
\* so the result stays integral only if no bucket is empty.
PassIntegral(a, exp) ==
    \A d \in 0..(RadixBase - 1) : \E i \in 1..Len(a) : (a[i] \div exp) % RadixBase = d

RECURSIVE RadixLoop(_, _, _, _)
\* while max_val // exp > 0.  On a float64 array the digit is a float, and
\* buckets[digit] raises TypeError.
RadixLoop(a, max_val, exp, integral) ==
    IF max_val \div exp > 0
    THEN IF integral
         THEN RadixLoop(RadixPass(a, exp), max_val, exp * RadixBase, PassIntegral(a, exp))
         ELSE Raise
    ELSE Ok(a)

\* EnhancedHyperionSort._radix_sort
RadixSort(a, integral) ==
    IF Len(a) = 0 THEN Ok(a) ELSE RadixLoop(a, ArrMax(a), 1, integral)

(***************************************************************************)
(* _compression_sort.  ratio is len(compressed) / arr.nbytes in percent,   *)
(* whatever lz4 achieves on the bytes of the array.                        *)
(***************************************************************************)
RatioOne == 100

\* [arr, ratio]
CompressionSort(a, compression_threshold, ratio) ==
    IF Len(a) < compression_threshold THEN [arr |-> a, ratio |-> RatioOne]
    ELSE IF ratio > RatioOne THEN [arr |-> a, ratio |-> RatioOne]
    ELSE [arr |-> NpSort(a), ratio |-> ratio]

(***************************************************************************)
(* _external_sort.  The file temp_data.bin holds the elements of the array *)
(* as 8-byte floats; a chunk is a byte range of at most buffer_size bytes. *)
(***************************************************************************)
\* self.buffer_size
BufferSize == 4096

\* math.ceil(len(arr) * arr.itemsize / chunk_size)
NumChunks(n, itemsize) == (n * itemsize + BufferSize - 1) \div BufferSize

\* The byte range of chunk i (0-based): offset and size.
ChunkOffset(i) == i * BufferSize
ChunkBytes(n, itemsize, i) == Min2(BufferSize, n * itemsize - ChunkOffset(i))

\* np.frombuffer(data, dtype=np.float64) raises ValueError unless the number
\* of bytes is a multiple of 8.
ChunkReadable(n, itemsize, i) == ChunkBytes(n, itemsize, i) % Float64Size = 0

\* The float64 whose low and high four bytes are the int32 values lo and hi
\* (little endian).  Non-negative doubles are ordered as their bit patterns
\* hi * 2^32 + lo; the model names such a double by its rank among the
\* patterns built from the values 0..MaxVal.
PackRadix == MaxVal + 1
PackedDouble(lo, hi) == lo + hi * PackRadix

\* _read_chunk_sync of chunk i (0-based) of the file: seek(offset), read(size),
\* np.frombuffer(data, dtype=np.float64), whatever dtype wrote the file.
ReadChunk(file, n, itemsize, i) ==
    LET first == ChunkOffset(i) \div itemsize
        count == ChunkBytes(n, itemsize, i) \div Float64Size
    IN IF itemsize = Float64Size
       THEN [k \in 1..count |-> file[first + k]]
       ELSE [k \in 1..count |-> PackedDouble(file[first + 2 * k - 1], file[first + 2 * k])]

\* temp_data.bin
NoFile == [exists |-> FALSE, data |-> << >>]

\* EnhancedHyperionSort._external_sort: [raised, arr, file], file being
\* temp_data.bin afterwards.  read_fails: a chunk read fails with an I/O
\* error.  asyncio.gather raises the first failure, before os.remove; without
\* chunks the function returns before os.remove.
ExternalSort(a, itemsize, read_fails) ==
    LET written == [exists |-> TRUE, data |-> a]
        num_chunks == NumChunks(Len(a), itemsize)
    IN IF num_chunks > 0 /\ (read_fails \/ \E i \in 1..num_chunks :
                                               ~ChunkReadable(Len(a), itemsize, i - 1))
       THEN [raised |-> TRUE, arr |-> << >>, file |-> written]
       ELSE LET chunks == [i \in 1..num_chunks |->
                              ReadChunk(written.data, Len(a), itemsize, i - 1)]
                sorted_chunks == [i \in 1..num_chunks |-> NpSort(chunks[i])]
            IN IF Len(sorted_chunks) = 0
               THEN [raised |-> FALSE, arr |-> << >>, file |-> written]
               ELSE [raised |-> FALSE, arr |-> MergeSortedArrays(sorted_chunks),
                     file |-> NoFile]

(***************************************************************************)
(* StreamProcessor.                                                        *)
(***************************************************************************)
\* self.chunk_size = max(1000, int(next_chunk_size))
MinStreamChunk == 1000
\* self.chunk_history = deque(maxlen=5)
ChunkHistoryLen == 5
\* StreamProcessor(chunk_size=self.chunk_size or 1000)
DefaultChunkSize == 1000

\* StreamProcessor.__init__(chunk_size); out collects what the generator yields.
NewStreamProcessor(chunk_size) ==
    [chunk_size |-> chunk_size, buffer |-> << >>, maxlen |-> chunk_size,
     chunks_processed |-> 0, chunk_history |-> << >>, out |-> << >>]

RECURSIVE DotIndex(_, _)
\* sum of i * y[i]
DotIndex(y, i) == IF i = 0 THEN 0 ELSE i * y[i] + DotIndex(y, i - 1)
RECURSIVE SeqSum(_, _)
SeqSum(y, i) == IF i = 0 THEN 0 ELSE y[i] + SeqSum(y, i - 1)

\* StreamProcessor._update_chunk_size: the least-squares line through
\* (1, y1) .. (k, yk), read at k + 1, is
\* (6 * sum(i * yi) - (2k + 4) * sum(yi)) / (k * (k - 1)).
UpdateChunkSize(sp) ==
    LET k == Len(sp.chunk_history) IN
    IF k < 2 THEN sp
    ELSE LET num == 6 * DotIndex(sp.chunk_history, k) - (2 * k + 4) * SeqSum(sp.chunk_history, k)
             den == k * (k - 1)
         IN [sp EXCEPT !.chunk_size =
                IF num >= MinStreamChunk * den THEN num \div den ELSE MinStreamChunk]

\* The last m elements of s (all of s if it is shorter): what a deque with
\* maxlen m keeps.
LastN(s, m) == IF Len(s) <= m THEN s ELSE SubSeq(s, Len(s) - m + 1, Len(s))

\* How many more items "for item in data_stream" takes up to its next flush,
\* 0 if the buffer can never hold chunk_size items: after j appends the
\* buffer holds min(maxlen, len(buffer) + j) items.
ItemsToFlush(sp) ==
    IF sp.chunk_size > sp.maxlen THEN 0 ELSE Max2(1, sp.chunk_size - Len(sp.buffer))

\* The flush inside the loop, on the buffer buf.
Flush(sp, buf) ==
    UpdateChunkSize(
        [sp EXCEPT !.chunks_processed = sp.chunks_processed + 1,
                   !.out = Append(sp.out, NpSort(buf)),
                   !.chunk_history = DequeAppend(sp.chunk_history, ChunkHistoryLen, Len(buf)),
                   !.buffer = << >>])

RECURSIVE StreamLoop(_, _, _)
\* "for item in data_stream" from item pos + 1 on, advanced from one flush
\* to the next.
StreamLoop(sp, items, pos) ==
    LET j == ItemsToFlush(sp) IN
    IF j = 0 \/ pos + j > Len(items)
    THEN [sp EXCEPT !.buffer = LastN(sp.buffer \o SubSeq(items, pos + 1, Len(items)),
                                      sp.maxlen)]
    ELSE StreamLoop(Flush(sp, LastN(sp.buffer \o SubSeq(items, pos + 1, pos + j), sp.maxlen)),
                    items, pos + j)

\* StreamProcessor.process_stream, consumed to its end: the final flush does
\* not clear the buffer.
ProcessStream(sp, items) ==
    LET s1 == StreamLoop(sp, items, 0) IN
    IF Len(s1.buffer) > 0
    THEN [s1 EXCEPT !.chunks_processed = s1.chunks_processed + 1,
                    !.out = Append(s1.out, NpSort(s1.buffer)),
                    !.chunk_history = DequeAppend(s1.chunk_history, ChunkHistoryLen,
                                                  Len(s1.buffer))]
    ELSE s1

(***************************************************************************)
(* _calculate_stats.                                                       *)
(***************************************************************************)
\* The fields of SortStats the model keeps; compression_ratio in percent.
\* fallback_strategy is never passed to SortStats and keeps its default.
Stats(n, strategy, algorithm, stream_chunks, ratio, error_detected) ==
    [items_processed |-> n, strategy_used |-> strategy, algorithm_used |-> algorithm,
     stream_chunks |-> stream_chunks, compression_ratio |-> ratio,
     error_detected |-> error_detected, fallback_strategy |-> "None"]

\* A slip of the error branch that passes the flag and the algorithm through
\* as the normal branch does.
ErrorStatsPassedThrough(a, strategy) == Stats(Len(a), strategy, strategy, 0, RatioOne, FALSE)

\* _calculate_stats(..., error=e): the error branch reads nothing of the array
\* but its length.
ErrorStats(a, strategy) == Stats(Len(a), strategy, "none", 0, RatioOne, TRUE)

\* The SortStats st once _get_bucket_distribution got the bucket count b.
StatsAfterBuckets(b, st) == [raised |-> b.raised, stats |-> st, c |-> b.c]

\* _calculate_stats without error: [raised, stats, c].  _get_bucket_distribution
\* calls _optimize_bucket_count for a non-empty array, which works on the
\* engine's cache c and may raise; the histogram itself is not kept.
CalculateStats(a, strategy, algorithm, stream_chunks, ratio, error_detected, c) ==
    StatsAfterBuckets(
        IF Len(a) = 0 THEN [raised |-> FALSE, count |-> 0, c |-> c]
        ELSE OptimizeBucketCount(a, c),
        Stats(Len(a), strategy, algorithm, stream_chunks, ratio, error_detected))

(***************************************************************************)
(* Strategy selection.                                                     *)
(***************************************************************************)
Strategies ==
    {"auto", "parallel", "memory_efficient", "hybrid", "adaptive", "stream", "block_sort",
     "bucket_sort", "radix_sort", "compression_sort", "external_sort"}

\* What the learned predictor can answer (_predict_strategy): the argmax of
\* six outputs of a trained network, any of them as far as the code goes.
Predictable ==
    {"adaptive", "bucket_sort", "hybrid", "parallel", "radix_sort", "compression_sort"}

RECURSIVE CentralSum(_, _, _, _)
\* The sum over the elements of (n * x - sum(a))^k, k in 2..4, which is
\* n^(k+1) times the k-th central moment.
CentralSum(a, vs, s1, k) ==
    IF vs = {} THEN 0
    ELSE LET v == CHOOSE x \in vs : TRUE
             d == Len(a) * v - s1
             dk == IF k = 2 THEN d * d ELSE IF k = 3 THEN d * d * d ELSE d * d * d * d
         IN Count(a, v) * dk + CentralSum(a, vs \ {v}, s1, k)

\* scipy.stats.skew(sample) > 2: m3 / m2^1.5 > 2; nan (a constant sample)
\* compares false.
HighSkew(a) ==
    LET s1 == PowerSum(a, Range(a), 1)
        a2 == CentralSum(a, Range(a), s1, 2)
        a3 == CentralSum(a, Range(a), s1, 3)
    IN a3 > 0 /\ Len(a) * a3 * a3 > 4 * a2 * a2 * a2

\* scipy.stats.kurtosis(sample) > 5: m4 / m2^2 - 3 > 5
HighKurtosis(a) ==
    LET s1 == PowerSum(a, Range(a), 1)
        a2 == CentralSum(a, Range(a), s1, 2)
        a4 == CentralSum(a, Range(a), s1, 4)
    IN a2 > 0 /\ Len(a) * a4 > 8 * a2 * a2

ParallelMin == 1000000
MinParallelCpus == 2
\* estimated_memory = n * arr.itemsize * 3
MemoryFactor == 3
\* estimated_memory > memory_available * 0.7
MemoryNum == 7
MemoryDen == 10

\* A slip of _choose_optimal_strategy that asks for a nearly sorted sample
\* before it looks at skewness and kurtosis.
ChooseNearlySortedFirst(a, itemsize, mem, nearly, external_sort_threshold) ==
    IF Len(a) = 0 THEN [raised |-> TRUE, strategy |-> "none"]
    ELSE [raised |-> FALSE,
          strategy |->
            IF Len(a) * itemsize * MemoryFactor * MemoryDen > mem * MemoryNum
            THEN "memory_efficient"
            ELSE IF nearly THEN "adaptive"
            ELSE IF HighSkew(a) \/ HighKurtosis(a) THEN "bucket_sort"
            ELSE IF Len(a) > ParallelMin /\ EnvCpuCount > MinParallelCpus THEN "parallel"
            ELSE IF LowVariance(a) THEN "hybrid"
            ELSE IF Len(a) > external_sort_threshold THEN "external_sort"
            ELSE "adaptive"]

\* EnhancedHyperionSort._choose_optimal_strategy: [raised, strategy].
\* np.ptp of the empty sample raises ValueError.  nearly is the value
\* is_nearly_sorted took, mem the available memory.
ChooseOptimalStrategy(a, itemsize, mem, nearly, external_sort_threshold) ==
    IF Len(a) = 0 THEN [raised |-> TRUE, strategy |-> "none"]
    ELSE [raised |-> FALSE,
          strategy |->
            IF Len(a) * itemsize * MemoryFactor * MemoryDen > mem * MemoryNum
            THEN "memory_efficient"
            ELSE IF HighSkew(a) \/ HighKurtosis(a) THEN "bucket_sort"
            ELSE IF nearly THEN "adaptive"
            ELSE IF Len(a) > ParallelMin /\ EnvCpuCount > MinParallelCpus THEN "parallel"
            ELSE IF LowVariance(a) THEN "hybrid"
            ELSE IF Len(a) > external_sort_threshold THEN "external_sort"
            ELSE "adaptive"]

\* A selection that asked the environment nothing.
Unasked(raised, strategy) ==
    [raised |-> raised, strategy |-> strategy, memory_available |-> None,
     is_nearly_sorted |-> FALSE]

\* What _choose_optimal_strategy answered, with the available memory and the
\* is_nearly_sorted it worked on.
Asked(o, mem, nearly) ==
    [raised |-> o.raised, strategy |-> o.strategy, memory_available |-> mem,
     is_nearly_sorted |-> nearly]

\* The strategies sort can select (lines 643-651): the set of
\* [raised, strategy, memory_available, is_nearly_sorted] over what the
\* environment may answer.
MemLevels == {0, EnvAvailableMemory}
SelectOutcomes(cfg, a, itemsize) ==
    IF Len(a) > cfg.external_sort_threshold
    THEN {Unasked(FALSE, "external_sort")}
    ELSE IF cfg.use_ml_prediction
    THEN IF Len(a) = 0 THEN {Unasked(TRUE, "none")}
         ELSE {Unasked(FALSE, st) : st \in Predictable}
    ELSE IF cfg.strategy = "auto"
    THEN {Asked(ChooseOptimalStrategy(a, itemsize, mem, nearly, cfg.external_sort_threshold),
                mem, nearly) :
             mem \in MemLevels, nearly \in NearlySortedOutcomes(a)}
    ELSE {Unasked(FALSE, cfg.strategy)}

(***************************************************************************)
(* The paths of sort that return an array with its stats.                  *)
(***************************************************************************)
NoStats == Stats(0, "none", "none", 0, RatioOne, FALSE)
\* What a path leaves in "result": shape is "pair" for (array, SortStats),
\* "bare" for an array alone.
Pair(a, st) == [shape |-> "pair", arr |-> a, stats |-> st]
Bare(a) == [shape |-> "bare", arr |-> a, stats |-> NoStats]
NoResult == [shape |-> "none", arr |-> << >>, stats |-> NoStats]

\* A path's outcome: the exception flag, the result and the engine's cache.
Out(raised, result, c) == [raised |-> raised, result |-> result, c |-> c]

\* The pair (arr, stats) once _calculate_stats answered st.
PairWith(arr, st) == Out(st.raised, Pair(arr, st.stats), st.c)

\* (array, self._calculate_stats(arr, strategy, algorithm, ...)) for a path
\* that produced r from arr.
WithStats(r, arr, strategy, algorithm, ratio, c) ==
    IF r.raised THEN Out(TRUE, NoResult, c)
    ELSE PairWith(r.arr, CalculateStats(arr, strategy, algorithm, 0, ratio, FALSE, c))

\* EnhancedHyperionSort._parallel_sort with its stats.
ParallelPath(a, itemsize, mem, c) ==
    WithStats(ParallelSort(a, itemsize, mem), a, "parallel", "quicksort", RatioOne, c)

\* self._parallel_sort(arr)[0] and the stats of _adaptive_sort after it.
AdaptiveAfterParallel(pp, a) ==
    IF pp.raised THEN pp
    ELSE WithStats(Ok(pp.result.arr), a, "adaptive", "quicksort", RatioOne, pp.c)

\* EnhancedHyperionSort._adaptive_sort; nearly is the value is_nearly_sorted
\* took.  np.max of the empty sample raises ValueError.
AdaptiveSort(a, itemsize, mem, nearly, c) ==
    IF nearly THEN WithStats(Ok(NpSort(a)), a, "adaptive", "timsort", RatioOne, c)
    ELSE IF Len(a) = 0 THEN Out(TRUE, NoResult, c)
    ELSE IF LowVariance(a) THEN AdaptiveAfterParallel(ParallelPath(a, itemsize, mem, c), a)
    ELSE WithStats(HybridSort(a), a, "adaptive", "mergesort", RatioOne, c)

\* block_size: int = 4096
DefaultBlockSize == 4096

\* EnhancedHyperionSort._optimize_block_sort of a block of SmallArrayLimit
\* elements or more: [raised, arr, c].  A low-variance block goes to
\* _bucket_sort.  Any other goes to _introsort, which partitions copies of
\* the block down to pieces of at most 16 elements and hands each to
\* _insertion_sort, a method compiled by numba.jit(nopython=True) with self
\* as its first argument: jit_fails says that numba refuses to type that
\* call (TypingError); if it accepts, the pieces come back sorted and their
\* concatenation is the sorted block.
OptimizeBlockSort(block, c, jit_fails) ==
    IF LowVariance(block) THEN BucketSort(block, c)
    ELSE IF jit_fails THEN [raised |-> TRUE, arr |-> << >>, c |-> c]
    ELSE [raised |-> FALSE, arr |-> NpSort(block), c |-> c]

\* EnhancedHyperionSort._advanced_block_sort: [raised, arr, c].  The arrays
\* of the model are shorter than two blocks, so split_into_blocks gives one
\* block, the whole array, and the pairwise merging has nothing to do.
AdvancedBlockSort(a, c, jit_fails) ==
    IF Len(a) < SmallArrayLimit THEN [raised |-> FALSE, arr |-> NpSort(a), c |-> c]
    ELSE OptimizeBlockSort(SplitIntoBlocks(a, DefaultBlockSize)[1], c, jit_fails)

\* (merged_array, stats) once _calculate_stats answered st.
StreamResult(sp1, merged_array, st) ==
    [raised |-> st.raised, result |-> Pair(merged_array, st.stats), c |-> st.c, sp |-> sp1]

\* _stream_sort_and_collect after process_stream was consumed and left the
\* processor as sp1.
CollectChunks(sp1, c) ==
    StreamResult(sp1, Concat(sp1.out),
                 IF Len(sp1.out) = 0
                 THEN CalculateStats(<< >>, "stream", "none", 0, RatioOne, FALSE, c)
                 ELSE CalculateStats(Concat(sp1.out), "stream", "timsort",
                                     sp1.chunks_processed, RatioOne, FALSE, c))

\* EnhancedHyperionSort._stream_sort_and_collect on the engine's stream
\* processor: [raised, result, c, sp].  gen_fails: the generator raises while
\* it is consumed.
StreamSortAndCollect(sp, items, gen_fails, c) ==
    IF gen_fails THEN [raised |-> TRUE, result |-> NoResult, c |-> c, sp |-> sp]
    ELSE CollectChunks(ProcessStream([sp EXCEPT !.out = << >>], items), c)

\* A path's outcome with temp_data.bin as it is afterwards.
Keep(o, file) == [raised |-> o.raised, result |-> o.result, c |-> o.c, file |-> file]

\* result = self._bucket_sort(arr), result = self._advanced_block_sort(arr):
\* the array alone.
OfBucketSort(b) == Out(b.raised, IF b.raised THEN NoResult ELSE Bare(b.arr), b.c)

\* The COMPRESSION_SORT branch after _compression_sort answered cs.
OfCompressionSort(cs, a, c) ==
    WithStats(Ok(cs.arr), a, "compression", "mergesort", cs.ratio, c)

\* The EXTERNAL_SORT branch after _external_sort answered x.
OfExternalSort(x, a, c) ==
    Keep(WithStats([raised |-> x.raised, arr |-> x.arr], a, "external", "externalmergesort",
                   RatioOne, c),
         x.file)

\* The dispatch of sort (lines 655-680) for the selected strategy on the
\* array a: [raised, result, c, file].  file is temp_data.bin; env holds what
\* the environment answers on this call (mem, nearly, ratio, read_fails,
\* jit_fails).
DispatchArray(strategy, a, dtype, cfg, c, file, env) ==
    CASE strategy = "external_sort" ->
             OfExternalSort(ExternalSort(a, ItemSize(dtype), env.read_fails), a, c)
      [] OTHER ->
         Keep(CASE strategy = "memory_efficient" ->
                       WithStats(MemoryEfficientSort(a, ItemSize(dtype), env.mem), a,
                                 "memory_efficient", "mergesort", RatioOne, c)
                [] strategy = "hybrid" ->
                       WithStats(HybridSort(a), a, "hybrid", "introsort", RatioOne, c)
                [] strategy = "adaptive" ->
                       AdaptiveSort(a, ItemSize(dtype), env.mem, env.nearly, c)
                [] strategy = "block_sort" ->
                       OfBucketSort(AdvancedBlockSort(a, c, env.jit_fails))
                [] strategy = "bucket_sort" ->
                       OfBucketSort(BucketSort(a, c))
                [] strategy = "radix_sort" ->
                       WithStats(RadixSort(a, dtype = "int32"), a, "radix", "radixsort",
                                 RatioOne, c)
                [] strategy = "compression_sort" ->
                       OfCompressionSort(
                           CompressionSort(a, cfg.compression_threshold, env.ratio), a, c)
                [] OTHER -> ParallelPath(a, ItemSize(dtype), env.mem, c),
              file)

\* A slip of the fallback that hands the array back as it came.
FallbackUnsorted(a, c) ==
    PairWith(a, CalculateStats(a, "fallback", "mergesort", 0, RatioOne, TRUE, c))

\* The verification failed (lines 691-696): [raised, result, c] with the
\* stable sort of the array and the stats of the fallback.
Fallback(a, c) ==
    PairWith(NpSort(a), CalculateStats(a, "fallback", "mergesort", 0, RatioOne, TRUE, c))

(***************************************************************************)
(* One engine and one call of sort.                                        *)
(***************************************************************************)
\* The defaults of EnhancedHyperionSort.__init__
DefaultCacheSize == 2000
DefaultCompressionThreshold == 10000
DefaultExternalThreshold == 100000
\* A threshold small enough for the arrays of the model to pass it.
SmallThreshold == 2
\* chunk_size given to the constructor, besides None.
SmallChunk == 2
\* The length of the long arrays: the shortest at which the paths stop
\* sorting the whole array directly.
BigLen == SmallArrayLimit

Configs ==
    [strategy : Strategies, use_ml_prediction : BOOLEAN, stream_mode : BOOLEAN,
     compression_threshold : {SmallThreshold, DefaultCompressionThreshold},
     external_sort_threshold : {SmallThreshold, DefaultExternalThreshold},
     chunk_size : {None, SmallChunk}]

\* The long arrays: a pattern repeated, and one ascending array.
Repeat(pat) == [i \in 1..BigLen |-> pat[((i - 1) % Len(pat)) + 1]]
BigArrays ==
    {Repeat(<<1>>), Repeat(<<2, 0, 1>>), Repeat(<<0, 0, 1, 2>>),
     [i \in 1..BigLen |-> (i * (MaxVal + 1) - 1) \div BigLen]}

\* Arrays whose shape the selector reacts to: one outlier among equal values
\* (skewness above 2), and one outlier on each side (kurtosis above 5); both
\* out of order.
OneOutlier == [i \in 1..SkewLen |-> IF i = 1 THEN 1 ELSE 0]
TwoOutliers == [i \in 1..KurtLen |-> IF i = 1 THEN 2 ELSE IF i = KurtLen THEN 0 ELSE 1]
ShapedArrays == {OneOutlier, TwoOutliers}

\* The long arrays are given to the configurations that matter at that
\* length: a forced strategy, the external sort by threshold, and the stream
\* mode.
BigConfig(cfg) ==
    /\ ~cfg.use_ml_prediction
    /\ cfg.chunk_size = None
    /\ cfg.compression_threshold = DefaultCompressionThreshold
    /\ \/ cfg.external_sort_threshold = SmallThreshold /\ cfg.strategy = "auto"
       \/ cfg.external_sort_threshold = DefaultExternalThreshold
          /\ cfg.strategy # "auto"
    /\ cfg.stream_mode => cfg.strategy = "stream"

\* What the caller passes to sort: a list (converted to float64), an ndarray
\* of float64 or int32, or a generator, which may raise while it is consumed.
Inputs ==
    {[kind |-> k, dtype |-> d, arr |-> a, gen_fails |-> g] :
        k \in {"list", "ndarray", "generator"}, d \in {"float64", "int32"},
        a \in SmallArrays \cup ShapedArrays \cup BigArrays, g \in BOOLEAN}

ValidInput(inp) ==
    /\ inp.dtype = "int32" => inp.kind = "ndarray"
    /\ inp.gen_fails => inp.kind = "generator"

\* Compression ratios lz4 may reach, in percent.
Ratios == {50, 100, 150}

NewEngine(cfg, inp) ==
    [cfg |-> cfg, kind |-> inp.kind, dtype |-> inp.dtype, arr |-> inp.arr,
     gen_fails |-> inp.gen_fails, pc |-> "call", strategy |-> "none",
     result |-> NoResult, ret |-> NoResult, escaped |-> FALSE, failed |-> FALSE,
     memory_available |-> None, is_nearly_sorted |-> FALSE,
     file |-> NoFile, io_error |-> FALSE, cache |-> NewCache(DefaultCacheSize),
     sp |-> NewStreamProcessor(IF cfg.chunk_size = None THEN DefaultChunkSize
                                                          ELSE cfg.chunk_size)]

InitEngine ==
    /\ \E cfg \in Configs, inp \in Inputs :
          /\ ValidInput(inp)
          /\ Len(inp.arr) >= SmallArrayLimit => BigConfig(cfg)
          /\ eng = NewEngine(cfg, inp)
    /\ CacheIdle /\ fnIn = Idle /\ fnOut = Idle /\ ext = Idle

\* sort, lines 631-632: a generator, or any input in stream mode, is handed
\* to _stream_sort_and_collect before the try block; a failure leaves sort.
StreamCall ==
    /\ eng.pc = "call"
    /\ eng.kind = "generator" \/ eng.cfg.stream_mode
    /\ \E r \in {StreamSortAndCollect(eng.sp, eng.arr, eng.gen_fails, eng.cache)} :
          eng' = [eng EXCEPT !.pc = "done", !.sp = r.sp, !.cache = r.c,
                             !.escaped = r.raised,
                             !.ret = IF r.raised THEN NoResult ELSE r.result]
    /\ UNCHANGED <<cacheVars, fnVars, extVars>>

\* sort, lines 639-651: the try block is entered and the strategy selected.
SelectStrategy ==
    /\ eng.pc = "call"
    /\ ~(eng.kind = "generator" \/ eng.cfg.stream_mode)
    /\ \E o \in SelectOutcomes(eng.cfg, eng.arr, ItemSize(eng.dtype)) :
          eng' = [eng EXCEPT !.pc = IF o.raised THEN "except" ELSE "dispatch",
                             !.strategy = o.strategy,
                             !.memory_available = o.memory_available,
                             !.is_nearly_sorted = o.is_nearly_sorted]
    /\ UNCHANGED <<cacheVars, fnVars, extVars>>

\* sort, lines 661-662: the STREAM strategy returns from inside the try.
DispatchStream ==
    /\ eng.pc = "dispatch" /\ eng.strategy = "stream"
    /\ \E r \in {StreamSortAndCollect(eng.sp, eng.arr, FALSE, eng.cache)} :
          eng' = [eng EXCEPT !.pc = IF r.raised THEN "except" ELSE "done",
                             !.sp = r.sp, !.cache = r.c,
                             !.ret = IF r.raised THEN NoResult ELSE r.result]
    /\ UNCHANGED <<cacheVars, fnVars, extVars>>

\* What the environment may answer during the dispatch of a strategy: the
\* available memory where a chunk size is computed, the order of the random
\* sample of _adaptive_sort, the compression ratio, a failing read, numba
\* refusing a method.  A path that does not ask gets one fixed answer.
EnvAnswers(strategy, a) ==
    [mem : IF strategy \in {"memory_efficient", "adaptive", "parallel", "auto"}
           THEN MemLevels ELSE {EnvAvailableMemory},
     nearly : IF strategy = "adaptive" THEN NearlySortedOutcomes(a) ELSE {FALSE},
     ratio : IF strategy = "compression_sort" THEN Ratios ELSE {RatioOne},
     read_fails : IF strategy = "external_sort" THEN BOOLEAN ELSE {FALSE},
     jit_fails : IF strategy = "block_sort" /\ Len(a) >= SmallArrayLimit
                 THEN BOOLEAN ELSE {FALSE}]

\* sort, lines 655-680: every other strategy leaves its result to the
\* verification.
Dispatch ==
    /\ eng.pc = "dispatch" /\ eng.strategy # "stream"
    /\ \E env \in EnvAnswers(eng.strategy, eng.arr) :
       \E d \in {DispatchArray(eng.strategy, eng.arr, eng.dtype, eng.cfg, eng.cache,
                               eng.file, env)} :
          eng' = [eng EXCEPT !.pc = IF d.raised THEN "except" ELSE "verify",
                             !.result = IF d.raised THEN NoResult ELSE d.result,
                             !.cache = d.c, !.file = d.file,
                             !.io_error = env.read_fails]
    /\ UNCHANGED <<cacheVars, fnVars, extVars>>

\* sort, lines 689-699: the verification, the fallback and the return.
Verify ==
    /\ eng.pc = "verify"
    /\ IF IsSorted(eng.result.arr)
       THEN eng' = [eng EXCEPT !.pc = "done", !.ret = eng.result]
       ELSE \E f \in {Fallback(eng.arr, eng.cache)} :
               eng' = [eng EXCEPT !.pc = IF f.raised THEN "except" ELSE "done",
                                  !.cache = f.c,
                                  !.ret = IF f.raised THEN NoResult ELSE f.result]
    /\ UNCHANGED <<cacheVars, fnVars, extVars>>

\* sort, lines 702-704: the except branch returns original_arr.
Except ==
    /\ eng.pc = "except"
    /\ eng' = [eng EXCEPT !.pc = "done", !.failed = TRUE,
                          !.ret = Pair(eng.arr, ErrorStats(eng.arr, "failed"))]
    /\ UNCHANGED <<cacheVars, fnVars, extVars>>

Init == InitEngine
Next == StreamCall \/ SelectStrategy \/ DispatchStream \/ Dispatch \/ Verify \/ Except
Spec == Init /\ [][Next]_vars

(***************************************************************************)
(* The StreamProcessor on its own (specification SpecStream): one          *)
(* processor, as the engine keeps one (self.stream_processor), consumes a  *)
(* first stream and then a second one.                                     *)
(***************************************************************************)
StreamVals == 0..MaxStreamVal
SmallStreams == SeqsUpTo(StreamVals, MaxStreamLen)
SecondStreams == SeqsUpTo(StreamVals, MaxSecondLen)
\* config.chunk_size as given, or the default of "self.chunk_size or 1000"
StreamChunkSizes == (1..SmallChunk) \cup {DefaultChunkSize}

StreamInputs ==
    {[chunk_size |-> cs, first |-> s1, second |-> s2] :
        cs \in StreamChunkSizes, s1 \in SmallStreams \cup BigArrays, s2 \in SecondStreams}

StreamNew(chunk_size) ==
    [stage |-> "new", sp |-> NewStreamProcessor(chunk_size), out1 |-> << >>, out2 |-> << >>]

\* list(self.stream_processor.process_stream(arr)) on the first stream
ProcessFirstStream ==
    /\ fnOut.stage = "new"
    /\ \E sp1 \in {ProcessStream([fnOut.sp EXCEPT !.out = << >>], fnIn.first)} :
          fnOut' = [fnOut EXCEPT !.stage = "first", !.sp = sp1, !.out1 = sp1.out]
    /\ UNCHANGED <<fnIn, cacheVars, engVars, extVars>>

\* the same call of a later sort on the same engine
ProcessSecondStream ==
    /\ fnOut.stage = "first"
    /\ \E sp2 \in {ProcessStream([fnOut.sp EXCEPT !.out = << >>], fnIn.second)} :
          fnOut' = [fnOut EXCEPT !.stage = "second", !.sp = sp2, !.out2 = sp2.out]
    /\ UNCHANGED <<fnIn, cacheVars, engVars, extVars>>

InitStream ==
    /\ fnIn \in StreamInputs
    /\ fnOut = StreamNew(fnIn.chunk_size)
    /\ CacheIdle /\ eng = Idle /\ ext = Idle
NextStream == ProcessFirstStream \/ ProcessSecondStream
SpecStream == InitStream /\ [][NextStream]_vars

(***************************************************************************)
(* The algorithms taken alone (specification SpecAlg): _radix_sort on an   *)
(* integer array, _advanced_partition and _optimize_bucket_count.          *)
(***************************************************************************)
\* Integer arrays for the radix sort, with one and with two decimal digits.
RadixArrays == SeqsUpTo(0..MaxRadixVal, MaxRadixLen)
\* An array whose last digits are all ten digits: 10, 9, 8, .. 1.
AllDigits == [i \in 1..RadixBase |-> IF i = 1 THEN RadixBase ELSE RadixBase + 1 - i]

AlgInputs ==
    {[op |-> "radix_sort", arr |-> a] : a \in RadixArrays \cup {AllDigits}}
    \cup {[op |-> "advanced_partition", arr |-> a] : a \in SmallArrays \cup BigArrays}
    \cup {[op |-> "optimize_bucket_count", arr |-> a] :
             a \in (SmallArrays \cup BigArrays) \ {<< >>}}

AlgNew == [stage |-> "new", raised |-> FALSE, arr |-> << >>, partitions |-> << >>, count |-> 0]

\* self._radix_sort(arr) on an integer ndarray
RadixSortCall ==
    /\ fnIn.op = "radix_sort" /\ fnOut.stage = "new"
    /\ \E r \in {RadixSort(fnIn.arr, TRUE)} :
          fnOut' = [fnOut EXCEPT !.stage = "done", !.raised = r.raised, !.arr = r.arr]
    /\ UNCHANGED <<fnIn, cacheVars, engVars, extVars>>

\* self._advanced_partition(arr)
AdvancedPartitionCall ==
    /\ fnIn.op = "advanced_partition" /\ fnOut.stage = "new"
    /\ \E ps \in {AdvancedPartition(fnIn.arr)} :
          fnOut' = [fnOut EXCEPT !.stage = "done", !.partitions = ps]
    /\ UNCHANGED <<fnIn, cacheVars, engVars, extVars>>

\* self._optimize_bucket_count(arr) on an engine with a fresh cache
OptimizeBucketCountCall ==
    /\ fnIn.op = "optimize_bucket_count" /\ fnOut.stage = "new"
    /\ \E b \in {OptimizeBucketCount(fnIn.arr, NewCache(DefaultCacheSize))} :
          fnOut' = [fnOut EXCEPT !.stage = "done", !.raised = b.raised, !.count = b.count]
    /\ UNCHANGED <<fnIn, cacheVars, engVars, extVars>>

InitAlg == fnIn \in AlgInputs /\ fnOut = AlgNew /\ CacheIdle /\ eng = Idle /\ ext = Idle
NextAlg == RadixSortCall \/ AdvancedPartitionCall \/ OptimizeBucketCountCall
SpecAlg == InitAlg /\ [][NextAlg]_vars

(***************************************************************************)
(* _external_sort step by step (specification SpecExt).  The coroutine     *)
(* writes temp_data.bin, creates one _read_chunk coroutine per chunk and   *)
(* awaits asyncio.gather of them; gather schedules them as tasks, each     *)
(* task hands _read_chunk_sync to a thread of the default executor, and    *)
(* the threads finish in any order.  reads[i] is the state of the read of  *)
(* chunk i: "created" (a coroutine object), "scheduled" (a task of the     *)
(* event loop), "in_flight" (running in a thread), "done" or "failed".     *)
(***************************************************************************)
ExtNew(a, itemsize) ==
    [arr |-> a, itemsize |-> itemsize, pc |-> "tofile", file |-> NoFile,
     reads |-> << >>, chunks |-> << >>, done_order |-> << >>, sorted_chunks |-> << >>,
     merged |-> FALSE, removed |-> FALSE, result |-> << >>, raised |-> FALSE]

ExtNumChunks == NumChunks(Len(ext.arr), ext.itemsize)

\* A slip of gather that answers as soon as one read is done.
GatherReadyOnFirst(reads) == \E i \in 1..Len(reads) : reads[i] = "done"

\* asyncio.gather has its result when every task is done.
GatherReady(reads) == \A i \in 1..Len(reads) : reads[i] = "done"

\* arr.tofile(file_path), line 599: the file is created or truncated ...
ToFileOpen ==
    /\ ext.pc = "tofile"
    /\ ext' = [ext EXCEPT !.pc = "writing", !.file = [exists |-> TRUE, data |-> << >>]]
    /\ UNCHANGED <<cacheVars, fnVars, engVars>>

\* ... and the array written to it.
ToFileWrite ==
    /\ ext.pc = "writing"
    /\ ext' = [ext EXCEPT !.pc = "create", !.file = [exists |-> TRUE, data |-> ext.arr]]
    /\ UNCHANGED <<cacheVars, fnVars, engVars>>

\* lines 605-609, one iteration: task = self._read_chunk(...) makes a
\* coroutine object, which does not run yet.
CreateTask ==
    /\ ext.pc = "create" /\ Len(ext.reads) < ExtNumChunks
    /\ ext' = [ext EXCEPT !.reads = Append(ext.reads, "created"),
                          !.chunks = Append(ext.chunks, << >>)]
    /\ UNCHANGED <<cacheVars, fnVars, engVars>>

\* line 611, await asyncio.gather(*tasks): every coroutine becomes a task
\* of the event loop and _external_sort is suspended.
Gather ==
    /\ ext.pc = "create" /\ Len(ext.reads) = ExtNumChunks
    /\ ext' = [ext EXCEPT !.pc = "await",
                          !.reads = [i \in 1..Len(ext.reads) |-> "scheduled"]]
    /\ UNCHANGED <<cacheVars, fnVars, engVars>>

\* The event loop runs the tasks in the order they were scheduled; _read_chunk
\* (lines 587-589) hands _read_chunk_sync to the executor.
StartRead ==
    /\ ext.pc = "await"
    /\ \E i \in 1..Len(ext.reads) :
          /\ ext.reads[i] = "scheduled"
          /\ \A j \in 1..(i - 1) : ext.reads[j] # "scheduled"
          /\ ext' = [ext EXCEPT !.reads[i] = "in_flight"]
    /\ UNCHANGED <<cacheVars, fnVars, engVars>>

\* _read_chunk_sync (lines 591-595) in its thread: open, seek, read,
\* np.frombuffer.  It fails on an I/O error, on a missing file and on a
\* byte count that is no multiple of 8.
CompleteRead ==
    /\ \E i \in 1..Len(ext.reads), io_error \in BOOLEAN :
          /\ ext.reads[i] = "in_flight"
          /\ IF ~io_error /\ ext.file.exists
                 /\ ChunkReadable(Len(ext.arr), ext.itemsize, i - 1)
             THEN \E chunk \in {ReadChunk(ext.file.data, Len(ext.arr), ext.itemsize, i - 1)} :
                     ext' = [ext EXCEPT !.reads[i] = "done", !.chunks[i] = chunk,
                                        !.done_order = Append(ext.done_order, i)]
             ELSE ext' = [ext EXCEPT !.reads[i] = "failed"]
    /\ UNCHANGED <<cacheVars, fnVars, engVars>>

\* chunks = await asyncio.gather(*tasks) answers.
GatherReturn ==
    /\ ext.pc = "await" /\ GatherReady(ext.reads)
    /\ ext' = [ext EXCEPT !.pc = "sort"]
    /\ UNCHANGED <<cacheVars, fnVars, engVars>>

\* gather raises the first failure to _external_sort, which passes it on;
\* asyncio.run then cancels the tasks that did not start.
GatherRaise ==
    /\ ext.pc = "await" /\ \E i \in 1..Len(ext.reads) : ext.reads[i] = "failed"
    /\ ext' = [ext EXCEPT !.pc = "raised", !.raised = TRUE]
    /\ UNCHANGED <<cacheVars, fnVars, engVars>>

\* lines 613-614, one iteration: sorted_chunks.append(np.sort(chunk))
SortChunk ==
    /\ ext.pc = "sort" /\ Len(ext.sorted_chunks) < Len(ext.chunks)
    /\ ext' = [ext EXCEPT !.sorted_chunks =
                    Append(ext.sorted_chunks, NpSort(ext.chunks[Len(ext.sorted_chunks) + 1]))]
    /\ UNCHANGED <<cacheVars, fnVars, engVars>>

\* lines 616-617: without chunks the function returns, the file stays.
ReturnEmpty ==
    /\ ext.pc = "sort" /\ Len(ext.sorted_chunks) = Len(ext.chunks)
    /\ Len(ext.sorted_chunks) = 0
    /\ ext' = [ext EXCEPT !.pc = "returned"]
    /\ UNCHANGED <<cacheVars, fnVars, engVars>>

\* line 619: result = self._merge_sorted_arrays(sorted_chunks)
Merge ==
    /\ ext.pc = "sort" /\ Len(ext.sorted_chunks) = Len(ext.chunks)
    /\ Len(ext.sorted_chunks) > 0
    /\ \E r \in {MergeSortedArrays(ext.sorted_chunks)} :
          ext' = [ext EXCEPT !.pc = "remove", !.merged = TRUE, !.result = r]
    /\ UNCHANGED <<cacheVars, fnVars, engVars>>

\* lines 620-621: os.remove(file_path); return result
Remove ==
    /\ ext.pc = "remove"
    /\ ext' = [ext EXCEPT !.pc = "returned", !.removed = TRUE, !.file = NoFile]
    /\ UNCHANGED <<cacheVars, fnVars, engVars>>

InitExt ==
    /\ \E a \in SmallArrays \cup BigArrays, itemsize \in {Float64Size, Int32Size} :
          ext = ExtNew(a, itemsize)
    /\ CacheIdle /\ fnIn = Idle /\ fnOut = Idle /\ eng = Idle
NextExt ==
    \/ ToFileOpen \/ ToFileWrite \/ CreateTask \/ Gather \/ StartRead \/ CompleteRead
    \/ GatherReturn \/ GatherRaise \/ SortChunk \/ ReturnEmpty \/ Merge \/ Remove
SpecExt == InitExt /\ [][NextExt]_vars

(***************************************************************************)
(* Two engines run _external_sort at the same time in one working          *)
(* directory (specification SpecConc), each in its own thread or process.  *)
(* Both use file_path = "temp_data.bin" (line 598), so ext holds the one   *)
(* file and the two runs.  The file has an inode (a new one each time the  *)
(* path is created), its elements and, for each element, the run that      *)
(* wrote it.  The arrays are float64.                                      *)
(***************************************************************************)
Runs == 1..NumRuns
ConcArrays == SeqsUpTo(0..MaxConcVal, MaxConcLen)

NoSharedFile == [exists |-> FALSE, inode |-> 0, data |-> << >>, writers |-> << >>]

\* One run at its entry; fd is the inode arr.tofile holds open.
ConcRun(a) ==
    [arr |-> a, pc |-> "tofile", fd |-> 0, reads |-> << >>, chunks |-> << >>,
     chunk_writers |-> << >>, sorted_chunks |-> << >>, merged |-> FALSE,
     result |-> << >>, raised |-> FALSE]

ConcNumChunks(k) == NumChunks(Len(ext.runs[k].arr), Float64Size)

\* The state after run k moved to r and left the file as f.
ConcAfter(k, r, f) == [ext EXCEPT !.runs[k] = r, !.file = f]

\* s with its first elements replaced by those of t: a write of t at offset 0.
WriteOver(s, t) == t \o SubSeq(s, Len(t) + 1, Len(s))

\* The elements first + 1 .. first + count of s that exist: file.seek, file.read.
ReadRange(s, first, count) == SubSeq(s, first + 1, Min2(first + count, Len(s)))

\* arr.tofile(file_path), line 599, opens the path for writing: an existing
\* file is truncated, a missing one created.
ConcToFileOpen(k) ==
    /\ ext.runs[k].pc = "tofile"
    /\ \E inode \in {IF ext.file.exists THEN ext.file.inode ELSE ext.file.inode + 1} :
          ext' = ConcAfter(k, [ext.runs[k] EXCEPT !.pc = "writing", !.fd = inode],
                           [exists |-> TRUE, inode |-> inode, data |-> << >>,
                            writers |-> << >>])
    /\ UNCHANGED <<cacheVars, fnVars, engVars>>

\* ... and writes the array from offset 0 into the inode it opened; if the
\* path was removed or recreated meanwhile the bytes go to the old inode.
ConcToFileWrite(k) ==
    /\ ext.runs[k].pc = "writing"
    /\ ext' = ConcAfter(k, [ext.runs[k] EXCEPT !.pc = "create"],
                        IF ext.file.exists /\ ext.file.inode = ext.runs[k].fd
                        THEN [ext.file EXCEPT
                                !.data = WriteOver(ext.file.data, ext.runs[k].arr),
                                !.writers = WriteOver(ext.file.writers,
                                               [i \in 1..Len(ext.runs[k].arr) |-> k])]
                        ELSE ext.file)
    /\ UNCHANGED <<cacheVars, fnVars, engVars>>

\* lines 605-609, one iteration
ConcCreateTask(k) ==
    /\ ext.runs[k].pc = "create" /\ Len(ext.runs[k].reads) < ConcNumChunks(k)
    /\ ext' = ConcAfter(k, [ext.runs[k] EXCEPT
                                !.reads = Append(ext.runs[k].reads, "created"),
                                !.chunks = Append(ext.runs[k].chunks, << >>),
                                !.chunk_writers = Append(ext.runs[k].chunk_writers, {})],
                        ext.file)
    /\ UNCHANGED <<cacheVars, fnVars, engVars>>

\* line 611, await asyncio.gather(*tasks)
ConcGather(k) ==
    /\ ext.runs[k].pc = "create" /\ Len(ext.runs[k].reads) = ConcNumChunks(k)
    /\ ext' = ConcAfter(k, [ext.runs[k] EXCEPT
                                !.pc = "await",
                                !.reads = [i \in 1..Len(ext.runs[k].reads) |-> "scheduled"]],
                        ext.file)
    /\ UNCHANGED <<cacheVars, fnVars, engVars>>

\* _read_chunk (lines 587-589) hands _read_chunk_sync to the executor.
ConcStartRead(k) ==
    /\ ext.runs[k].pc = "await"
    /\ \E i \in 1..Len(ext.runs[k].reads) :
          /\ ext.runs[k].reads[i] = "scheduled"
          /\ \A j \in 1..(i - 1) : ext.runs[k].reads[j] # "scheduled"
          /\ ext' = ConcAfter(k, [ext.runs[k] EXCEPT !.reads[i] = "in_flight"], ext.file)
    /\ UNCHANGED <<cacheVars, fnVars, engVars>>

\* _read_chunk_sync (lines 591-595): open fails on a missing path; read
\* returns the bytes the file holds in the range, possibly fewer than asked.
ConcCompleteRead(k) ==
    /\ \E i \in 1..Len(ext.runs[k].reads) :
          /\ ext.runs[k].reads[i] = "in_flight"
          /\ LET first == ChunkOffset(i - 1) \div Float64Size
                 count == ChunkBytes(Len(ext.runs[k].arr), Float64Size, i - 1)
                              \div Float64Size
             IN IF ext.file.exists
                THEN ext' = ConcAfter(k,
                        [ext.runs[k] EXCEPT
                            !.reads[i] = "done",
                            !.chunks[i] = ReadRange(ext.file.data, first, count),
                            !.chunk_writers[i] =
                                Range(ReadRange(ext.file.writers, first, count))],
                        ext.file)
                ELSE ext' = ConcAfter(k, [ext.runs[k] EXCEPT !.reads[i] = "failed"],
                                      ext.file)
    /\ UNCHANGED <<cacheVars, fnVars, engVars>>

ConcGatherReturn(k) ==
    /\ ext.runs[k].pc = "await" /\ GatherReady(ext.runs[k].reads)
    /\ ext' = ConcAfter(k, [ext.runs[k] EXCEPT !.pc = "sort"], ext.file)
    /\ UNCHANGED <<cacheVars, fnVars, engVars>>

ConcGatherRaise(k) ==
    /\ ext.runs[k].pc = "await"
    /\ \E i \in 1..Len(ext.runs[k].reads) : ext.runs[k].reads[i] = "failed"
    /\ ext' = ConcAfter(k, [ext.runs[k] EXCEPT !.pc = "raised", !.raised = TRUE], ext.file)
    /\ UNCHANGED <<cacheVars, fnVars, engVars>>

\* lines 613-614, one iteration
ConcSortChunk(k) ==
    /\ ext.runs[k].pc = "sort"
    /\ Len(ext.runs[k].sorted_chunks) < Len(ext.runs[k].chunks)
    /\ ext' = ConcAfter(k,
            [ext.runs[k] EXCEPT !.sorted_chunks =
                Append(ext.runs[k].sorted_chunks,
                       NpSort(ext.runs[k].chunks[Len(ext.runs[k].sorted_chunks) + 1]))],
            ext.file)
    /\ UNCHANGED <<cacheVars, fnVars, engVars>>

\* lines 616-617
ConcReturnEmpty(k) ==
    /\ ext.runs[k].pc = "sort"
    /\ Len(ext.runs[k].sorted_chunks) = Len(ext.runs[k].chunks)
    /\ Len(ext.runs[k].sorted_chunks) = 0
    /\ ext' = ConcAfter(k, [ext.runs[k] EXCEPT !.pc = "returned"], ext.file)
    /\ UNCHANGED <<cacheVars, fnVars, engVars>>

\* line 619
ConcMerge(k) ==
    /\ ext.runs[k].pc = "sort"
    /\ Len(ext.runs[k].sorted_chunks) = Len(ext.runs[k].chunks)
    /\ Len(ext.runs[k].sorted_chunks) > 0
    /\ \E r \in {MergeSortedArrays(ext.runs[k].sorted_chunks)} :
          ext' = ConcAfter(k, [ext.runs[k] EXCEPT !.pc = "remove", !.merged = TRUE,
                                                  !.result = r], ext.file)
    /\ UNCHANGED <<cacheVars, fnVars, engVars>>

\* lines 620-621: os.remove raises FileNotFoundError on a missing path.
ConcRemove(k) ==
    /\ ext.runs[k].pc = "remove"
    /\ IF ext.file.exists
       THEN ext' = ConcAfter(k, [ext.runs[k] EXCEPT !.pc = "returned"],
                             [ext.file EXCEPT !.exists = FALSE, !.data = << >>,
                                              !.writers = << >>])
       ELSE ext' = ConcAfter(k, [ext.runs[k] EXCEPT !.pc = "raised", !.raised = TRUE],
                             ext.file)
    /\ UNCHANGED <<cacheVars, fnVars, engVars>>

InitConc ==
    /\ \E arrs \in [Runs -> ConcArrays] :
          ext = [file |-> NoSharedFile, runs |-> [k \in Runs |-> ConcRun(arrs[k])]]
    /\ CacheIdle /\ fnIn = Idle /\ fnOut = Idle /\ eng = Idle
NextConc ==
    \E k \in Runs :
        \/ ConcToFileOpen(k) \/ ConcToFileWrite(k) \/ ConcCreateTask(k) \/ ConcGather(k)
        \/ ConcStartRead(k) \/ ConcCompleteRead(k) \/ ConcGatherReturn(k)
        \/ ConcGatherRaise(k) \/ ConcSortChunk(k) \/ ConcReturnEmpty(k)
        \/ ConcMerge(k) \/ ConcRemove(k)
SpecConc == InitConc /\ [][NextConc]_vars

(***************************************************************************)
(* Properties of sort (specification Spec).                                *)
(***************************************************************************)
\* The call did not take a stream path: neither a generator, nor stream
\* mode, nor the STREAM strategy.
NonStream ==
    eng.kind # "generator" /\ ~eng.cfg.stream_mode /\ eng.strategy # "stream"

\* sort has returned to its caller, or left it with an exception.
Done == eng.pc = "done"

\* C1: in non-stream mode, whatever strategy was dispatched (radix only on
\* an integer array), the array sort returns is non-decreasing and a
\* permutation of the input.
C1_SortedPermutation ==
    (Done /\ NonStream /\ (eng.strategy = "radix_sort" => eng.dtype = "int32"))
        => IsSorted(eng.ret.arr) /\ IsPermutation(eng.ret.arr, eng.arr)

\* The verification found the dispatched array out of order.
VerificationFailed ==
    eng.pc # "verify" /\ eng.result.shape # "none" /\ ~IsSorted(eng.result.arr)

C3_ErrorReturnsOriginal ==
    (Done /\ eng.failed)
        => /\ eng.ret.shape = "pair"
           /\ eng.ret.arr = eng.arr
           /\ eng.ret.stats.error_detected
           /\ eng.ret.stats.algorithm_used = "none"
           /\ eng.ret.stats.items_processed = Len(eng.arr)

\* C3 happens: the memory-efficient path raised on an unsorted array, which
\* came back as it was.
C3_Witness ==
    /\ Done /\ eng.failed
    /\ eng.strategy = "memory_efficient"
    /\ Len(eng.arr) >= 2 /\ ~IsSorted(eng.arr)
    /\ eng.ret.arr = eng.arr

\* C4: no call of sort leaves its caller with an exception, the stream path
\* included.
C4_NoFailureEscapes == Done => ~eng.escaped

\* C5: in non-stream mode sort returns the pair (array, SortStats), never an
\* array alone.
C5_ReturnsPair == (Done /\ NonStream) => eng.ret.shape = "pair"

\* C10: for an array longer than the external-sort threshold, with no I/O
\* error, the returned array is non-decreasing over all elements of the
\* input and temp_data.bin no longer exists.
C10_ExternalSortedAndCleaned ==
    (Done /\ NonStream /\ ~eng.io_error /\ Len(eng.arr) > eng.cfg.external_sort_threshold)
        => /\ IsSorted(eng.ret.arr)
           /\ Len(eng.ret.arr) = Len(eng.arr)
           /\ ~eng.file.exists

\* C13: when COMPRESSION_SORT is dispatched on an input shorter than
\* compression_threshold, sort returns the input with its order unchanged
\* and stats with compression_ratio 1.0 and no error flagged, whether the
\* input is sorted or not.
C13_ShortCompressionIsNoOp ==
    (Done /\ NonStream /\ eng.strategy = "compression_sort"
          /\ Len(eng.arr) < eng.cfg.compression_threshold)
        => /\ eng.ret.shape = "pair"
           /\ eng.ret.arr = eng.arr
           /\ eng.ret.stats.compression_ratio = RatioOne
           /\ ~eng.ret.stats.error_detected

\* The call selects by the heuristic: no stream path, no learned
\* predictor, strategy AUTO, and the selection has been made.
HeuristicSelection ==
    /\ eng.pc # "call"
    /\ eng.kind # "generator" /\ ~eng.cfg.stream_mode
    /\ ~eng.cfg.use_ml_prediction
    /\ eng.cfg.strategy = "auto"

C15_AscendingTakesStableSort ==
    (Done /\ HeuristicSelection
          /\ Len(eng.arr) > 0 /\ IsSorted(eng.arr)
          /\ Len(eng.arr) <= eng.cfg.external_sort_threshold
          /\ eng.memory_available = EnvAvailableMemory)
        => /\ eng.is_nearly_sorted
           /\ eng.strategy = "adaptive"
           /\ eng.ret.shape = "pair"
           /\ eng.ret.stats.algorithm_used = "timsort"
           /\ eng.ret.arr = eng.arr

(***************************************************************************)
(* Properties of AdaptiveCache (specification SpecCache).                  *)
(***************************************************************************)
\* C6: the cache never holds more entries than its capacity, and a put at
\* capacity removes exactly one stored entry, the oldest of the access
\* history, before it inserts.
C6_CapacityAndEviction ==
    /\ Cardinality(DOMAIN ac.cache) <= ac.size
    /\ (lastOp.op = "put" /\ lastOp.full)
          => /\ ~lastOp.raised
             /\ lastOp.oldest \in lastOp.before
             /\ DOMAIN ac.cache = (lastOp.before \ {lastOp.oldest}) \cup {lastOp.key}

\* C7: get(k) of a stored key returns the value of the latest put(k, v).
C7_GetReturnsLatestPut ==
    (lastOp.op = "get" /\ lastOp.key \in DOMAIN ac.cache)
        => lastOp.ret = ac.cache[lastOp.key]

\* C19: on every get that misses, if the hit rate hits / (hits + misses + 1)
\* is below 0.8 or the access history holds fewer than min_size entries,
\* the capacity grows by 50%, also when the access history is empty; and
\* the capacity never decreases.
C19_MissGrowsCapacity ==
    [][/\ ac'.size >= ac.size
       /\ (ac'.misses = ac.misses + 1
             /\ (\/ 10 * ac.hits < 8 * (ac.hits + ac'.misses + 1)
                 \/ Len(ac.history) < ac.min_size))
          => ac'.size = (3 * ac.size) \div 2]_vars

(***************************************************************************)
(* Properties of the pure functions (specification SpecFn).                *)
(***************************************************************************)
\* C8: the multiway merge of sorted partitions, empty ones included, is
\* non-decreasing, as long as the partitions together, and holds the same
\* elements.
C8_MergeSortedUnion ==
    (fnIn.op = "merge" /\ fnOut.stage = "done")
        => /\ IsSorted(fnOut.ret)
           /\ Len(fnOut.ret) = SumLen(fnIn.arrays)
           /\ IsPermutation(fnOut.ret, Concat(fnIn.arrays))

\* C8 happens: MaxParts partitions were merged, an empty one among them and
\* two that overlap, so that neither can simply follow the other.
C8_Witness ==
    /\ fnIn.op = "merge" /\ fnOut.stage = "done"
    /\ Len(fnIn.arrays) = MaxParts
    /\ \E i \in 1..Len(fnIn.arrays) : Len(fnIn.arrays[i]) = 0
    /\ \E i, j \in 1..Len(fnIn.arrays) :
          /\ i < j /\ Len(fnIn.arrays[i]) = MaxPartLen /\ Len(fnIn.arrays[j]) = MaxPartLen
          /\ fnIn.arrays[j][1] < fnIn.arrays[i][MaxPartLen]
          /\ fnIn.arrays[i][1] < fnIn.arrays[j][MaxPartLen]
    /\ Len(fnOut.ret) = 2 * MaxPartLen

\* C9: split_into_blocks yields max(1, len // b) contiguous blocks,
\* merge_blocks of them is the array again, and merge_blocks of the empty
\* list is the empty array.
C9_BlockRoundTrip ==
    /\ (fnIn.op = "split" /\ fnOut.stage # "new")
          => /\ Len(fnOut.blocks) = Max2(1, Len(fnIn.arr) \div fnIn.block_size)
             /\ Concat(fnOut.blocks) = fnIn.arr
    /\ (fnIn.op = "split" /\ fnOut.stage = "done") => fnOut.ret = fnIn.arr
    /\ (fnIn.op = "merge_blocks" /\ fnOut.stage = "done")
          => /\ Len(fnIn.arrays) = 0 => fnOut.ret = << >>
             /\ fnOut.ret = Concat(fnIn.arrays)

\* C9 happens: an array was split into more than one block, of different
\* lengths, and merged again.
C9_Witness ==
    /\ fnIn.op = "split" /\ fnOut.stage = "done"
    /\ Len(fnOut.blocks) > 1
    /\ Len(fnOut.blocks[1]) > Len(fnOut.blocks[Len(fnOut.blocks)])
    /\ ~IsSorted(fnIn.arr)
    /\ fnOut.ret = fnIn.arr

(***************************************************************************)
(* Properties of the StreamProcessor (specification SpecStream).           *)
(***************************************************************************)
\* C11: every item the processor consumed is in exactly one window it
\* emitted: the windows of a stream, concatenated, are a permutation of
\* the stream, whatever the configured chunk_size.
C11_WindowsArePermutation ==
    fnOut.stage # "new" => IsPermutation(Concat(fnOut.out1), fnIn.first)

\* C12: when process_stream has finished a stream its buffer is empty, and
\* the windows of a later stream on the same processor hold only items of
\* that later stream.
C12_BufferClearedAtEnd ==
    /\ fnOut.stage # "new" => Len(fnOut.sp.buffer) = 0
    /\ fnOut.stage = "second" =>
          \A v \in StreamVals : Count(Concat(fnOut.out2), v) <= Count(fnIn.second, v)

(***************************************************************************)
(* Properties of the algorithms (specification SpecAlg).                   *)
(***************************************************************************)
\* C16: on every array of non-negative integers the radix sort ends
\* without an exception and returns a non-decreasing permutation of the
\* array.
C16_RadixSortsIntegers ==
    (fnIn.op = "radix_sort" /\ fnOut.stage = "done")
        => /\ ~fnOut.raised
           /\ IsSorted(fnOut.arr) /\ IsPermutation(fnOut.arr, fnIn.arr)

\* C17: the partitions of _advanced_partition, concatenated, hold exactly
\* the multiset of the array: every element is in exactly one partition.
C17_PartitionsCoverArray ==
    (fnIn.op = "advanced_partition" /\ fnOut.stage = "done")
        => IsPermutation(Concat(fnOut.partitions), fnIn.arr)

\* C18: for every non-empty array the bucket-count heuristic returns an
\* integer that is at least 1.
C18_BucketCountAtLeastOne ==
    (fnIn.op = "optimize_bucket_count" /\ fnOut.stage = "done")
        => ~fnOut.raised /\ fnOut.count >= 1

(***************************************************************************)
(* Properties of _external_sort (specification SpecExt).                   *)
(***************************************************************************)
\* The read of chunk i has been handed out and has not ended.
ReadPending(i) == ext.reads[i] \in {"scheduled", "in_flight"}

\* C20: in every run of the external sort the events come in this order:
\* the temporary file is fully written before a read is created; every
\* read is created before any is awaited; a chunk is sorted only after its
\* own read is done; the merge starts only after every chunk is sorted; the
\* file is deleted only after the merge, with no read pending or in flight.
C20_ExternalSortOrder ==
    /\ Len(ext.reads) > 0 => ext.removed \/ (ext.file.exists /\ ext.file.data = ext.arr)
    /\ (\E i \in 1..Len(ext.reads) : ext.reads[i] # "created")
          => Len(ext.reads) = ExtNumChunks
    /\ \A i \in 1..Len(ext.sorted_chunks) :
          ext.reads[i] = "done" /\ ext.sorted_chunks[i] = NpSort(ext.chunks[i])
    /\ ext.merged => /\ Len(ext.sorted_chunks) = ExtNumChunks
                     /\ ext.result = MergeSortedArrays(ext.sorted_chunks)
    /\ ext.removed => /\ ext.merged
                      /\ \A i \in 1..Len(ext.reads) : ~ReadPending(i)

\* C20 happens: of two chunks the second was read first, both were sorted
\* and merged, and the file was deleted.
C20_Witness ==
    /\ ext.pc = "returned" /\ ext.removed /\ ~ext.file.exists
    /\ ext.done_order = <<2, 1>>
    /\ Len(ext.result) = Len(ext.arr) /\ ~IsSorted(ext.arr)

(***************************************************************************)
(* Properties of two concurrent external sorts (specification SpecConc).   *)
(***************************************************************************)
\* Run k has a chunk read handed out that has not ended.
HasPendingRead(k) ==
    \E i \in 1..Len(ext.runs[k].reads) : ext.runs[k].reads[i] \in {"scheduled", "in_flight"}

\* C21: two external sorts running at the same time in one working
\* directory do not interfere: every chunk read of a run returns the bytes
\* of its range that the same run wrote, and no run deletes or overwrites
\* the temporary file while the other run has chunk reads pending.
C21_RunsDoNotInterfere ==
    /\ [](\A k \in Runs : \A i \in 1..Len(ext.runs[k].reads) :
            ext.runs[k].reads[i] = "done"
               => /\ ext.runs[k].chunk_writers[i] \subseteq {k}
                  /\ ext.runs[k].chunks[i] =
                        ReadChunk(ext.runs[k].arr, Len(ext.runs[k].arr), Float64Size, i - 1))
    /\ [][\A k \in Runs :
            (ext'.file # ext.file /\ ext'.runs[k] = ext.runs[k]) => ~HasPendingRead(k)]_vars

====
